---- MODULE Spec2Model ----
(***************************************************************************)
(* Model of utils/jetfighter/detect_cmap.py: the page colour extractor     *)
(* (parse_img), the reference colormap library (build_cmap_knn, CMAP_KNN), *)
(* the perceptual conversion (convert_to_jab), the colormap matcher        *)
(* (find_cm_dists) and the rainbow classifier (detect_rainbow_from_colors, *)
(* detect_cmap).                                                           *)
(*                                                                         *)
(* Representation.                                                         *)
(*  - A numpy channel value is held in fixed point, as an integer number   *)
(*    of 1/Scale units (Scale = 255 * 255): the uint8 value v is v*Scale,  *)
(*    and the float that skimage.color.rgba2rgb yields for channel c under *)
(*    alpha a, (1 - a/255) * 1 + (a/255) * (c/255), is exactly             *)
(*    ((255 - a) * 255 + a * c) / Scale of one unit, an integer below.     *)
(*  - A fraction (pct_cm, pct_page, cm_thresh) is a pair <<num, den>>.     *)
(*  - A string that the code parses (a path, a page identifier) is a       *)
(*    sequence of one-character strings; colormap names, only compared,    *)
(*    are strings.                                                         *)
(*  - A DataFrame is the sequence of its rows (records), in row order.     *)
(*  - Libraries outside the repository are modelled by stand-ins on an     *)
(*    integer grid: matplotlib's colormap tables by Lut, colorspacious'    *)
(*    CAM02-UCS transform by ToJab, sklearn's nearest-neighbour query by   *)
(*    an exhaustive search with the tie-break left open (knn_tie), and     *)
(*    numpy's quicksort by a sort whose order among equal keys is left     *)
(*    open (a parameter of sort_values).                                   *)
(***************************************************************************)
EXTENDS Integers, Sequences, FiniteSets, TLC

VARIABLES
    pc,        \* "idle": no call in progress; "done": a call has returned or raised
    op,        \* the function last called
    args,      \* its arguments, as passed
    ret,       \* what it returned ([kind |-> "return", ...]) or raised ([kind |-> "raise", ...])
    df_colors, \* the caller's colour table after the call (convert_to_jab works in place)
    csv,       \* the debug exports written by the call: file name -> table
    knn_tie    \* how this build's nearest-neighbour index breaks ties between equidistant samples

vars == <<pc, op, args, ret, df_colors, csv, knn_tie>>

(***************************************************************************)
(* Bounds of the model.                                                    *)
(***************************************************************************)
MaxPixels == 2   \* pixels of an image enumerated pixel by pixel
MaxBatch == 2    \* files matched by the glob of detect_cmap; pages of a colour table
MaxDiffBound == 5 \* largest max_diff enumerated for find_cm_dists

(***************************************************************************)
(* Generic helpers.                                                        *)
(***************************************************************************)
Scale == 255 * 255

Range(s) == {s[i] : i \in DOMAIN s}

Min(x, y) == IF x <= y THEN x ELSE y

\* All sequences over S of length 0..n.
SeqsUpTo(S, n) == UNION {[1..k -> S] : k \in 0..n}

RECURSIVE SumSeq(_)
SumSeq(s) == IF s = <<>> THEN 0 ELSE Head(s) + SumSeq(Tail(s))

\* Lexicographic "less than" on sequences of integers (tuple / string order).
RECURSIVE LexLess(_, _)
LexLess(s, t) ==
    IF t = <<>> THEN FALSE
    ELSE IF s = <<>> THEN TRUE
    ELSE IF Head(s) # Head(t) THEN Head(s) < Head(t)
    ELSE LexLess(Tail(s), Tail(t))

\* The elements of the domain of key, ascending by key (an integer sequence
\* for each element, distinct for distinct elements).
SortedSeqOf(key) ==
    [i \in 1..Cardinality(DOMAIN key) |->
        CHOOSE x \in DOMAIN key :
            Cardinality({y \in DOMAIN key : LexLess(key[y], key[x])}) = i - 1]

\* The sequence without its repeated elements, first occurrences kept in order.
RECURSIVE Unique(_)
Unique(s) ==
    IF s = <<>> THEN <<>>
    ELSE LET rest == Unique(SubSeq(s, 1, Len(s) - 1))
         IN IF s[Len(s)] \in Range(rest) THEN rest ELSE Append(rest, s[Len(s)])

Reverse(s) == [i \in DOMAIN s |-> s[Len(s) + 1 - i]]

\* Python's None, and a string value where None may stand instead.
None == [kind |-> "None"]

Str(s) == [kind |-> "str", s |-> s]

Raise(exc) == [kind |-> "raise", exc |-> exc]

\* Code point of a character of the model's alphabet.
Ord(c) ==
    CASE c = "-" -> 45
      [] c = "." -> 46
      [] c = "/" -> 47
      [] c = "0" -> 48
      [] c = "7" -> 55
      [] c = "8" -> 56
      [] c = "d" -> 100
      [] c = "g" -> 103
      [] c = "p" -> 112
      [] c = "x" -> 120

Ords(str) == [i \in DOMAIN str |-> Ord(str[i])]

IsDigit(c) == Ord(c) >= 48 /\ Ord(c) <= 57

\* Index of the last occurrence of character c in str, 0 when absent.
LastIndexOf(str, c) ==
    LET hits == {i \in DOMAIN str : str[i] = c}
    IN IF hits = {} THEN 0 ELSE CHOOSE i \in hits : \A j \in hits : j <= i

(***************************************************************************)
(* Configuration tables (lines 16-17, 52-75).                              *)
(***************************************************************************)
RAINBOW_MAPS ==
    <<"prism", "hsv", "gist_rainbow", "rainbow", "nipy_spectral", "gist_ncar", "jet">>

cmap_names == <<
    <<"Perceptually Uniform Sequential",
      <<"viridis", "plasma", "inferno", "magma">> >>,
    <<"Sequential",
      <<"Greys", "Purples", "Blues", "Greens", "Oranges", "Reds",
        "YlOrBr", "YlOrRd", "OrRd", "PuRd", "RdPu", "BuPu",
        "GnBu", "PuBu", "YlGnBu", "PuBuGn", "BuGn", "YlGn">> >>,
    <<"Sequential (2)",
      <<"binary", "gist_yarg", "gist_gray", "gray", "bone", "pink",
        "spring", "summer", "autumn", "winter", "cool", "Wistia",
        "hot", "afmhot", "gist_heat", "copper">> >>,
    <<"Diverging",
      <<"PiYG", "PRGn", "BrBG", "PuOr", "RdGy", "RdBu",
        "RdYlBu", "RdYlGn", "Spectral", "coolwarm", "bwr", "seismic">> >>,
    <<"Qualitative",
      <<"Pastel1", "Pastel2", "Paired", "Accent",
        "Dark2", "Set1", "Set2", "Set3",
        "tab10", "tab20", "tab20b", "tab20c">> >>,
    <<"Miscellaneous",
      <<"flag", "prism", "ocean", "gist_earth", "terrain", "gist_stern",
        "gnuplot", "gnuplot2", "CMRmap", "cubehelix", "brg", "hsv",
        "gist_rainbow", "rainbow", "jet", "nipy_spectral", "gist_ncar">> >> >>

drop_maps == <<"Greys", "binary", "gist_yarg", "gist_gray", "gray">>

(***************************************************************************)
(* Perceptual Color Converter: stand-in for colorspacious.cspace_convert   *)
(* (lines 88, 100).                                                        *)
(***************************************************************************)
\* CAM02-UCS stand-in: an injective map of the colour, read on the 0..255
\* scale and cut to whole units, into a three-dimensional integer grid
\* (J: lightness, a and b: chroma axes).
ToJab(rgb) ==
    LET r == rgb[1] \div Scale
        g == rgb[2] \div Scale
        b == rgb[3] \div Scale
    IN <<r + g + b, r - g, g - b>>

\* cspace_convert(rgb, from_cm, "CAM02-UCS"): "sRGB1" reads the values on the
\* 0..1 scale, "sRGB255" reads the same numbers on the 0..255 scale.
cspace_convert(rgb, from_cm) ==
    IF from_cm = "sRGB1"
    THEN ToJab(<<255 * rgb[1], 255 * rgb[2], 255 * rgb[3]>>)
    ELSE ToJab(rgb)

(***************************************************************************)
(* Reference Colormap Library (lines 78-93).                               *)
(***************************************************************************)
RECURSIVE chain_from_iterable(_)
chain_from_iterable(seqs) ==
    IF seqs = <<>> THEN <<>> ELSE Head(seqs) \o chain_from_iterable(Tail(seqs))

cm_names == [c \in DOMAIN cmap_names |-> cmap_names[c][2]]

AllNames == chain_from_iterable(cm_names)

\* Position of a colormap name in the configuration table.
TablePos(name) == CHOOSE k \in DOMAIN AllNames : AllNames[k] = name

IsListed(name) ==
    \E c \in DOMAIN cmap_names :
        cmap_names[c][1] = "Qualitative" /\ name \in Range(cmap_names[c][2])

\* Stand-in for matplotlib's 256-entry lookup table of plt.get_cmap(name):
\* entry j (0..255) as sRGB bytes. Every colormap is its own gradient; a
\* qualitative (listed) colormap has 8 colours, each repeated over 32 entries.
LutEntry(name, jj) == <<jj, 255 - jj, 3 * TablePos(name)>>

Lut(name, j) == LutEntry(name, IF IsListed(name) THEN (j \div 32) * 32 ELSE j)

\* cm(np.linspace(0, 1, n))[i]: matplotlib maps x in [0,1] to entry
\* int(x * 256), and x = 1 to the last entry.
LinspaceEntry(i, n) == IF n = 1 THEN 0 ELSE Min(255, (i * 256) \div (n - 1))

\* Sample i (0-based) of the n-point sample of a colormap, on the sRGB1
\* scale (fixed point): the byte v is v/255.
sRGB1(c) == <<c[1] * 255, c[2] * 255, c[3] * 255>>

CmSample(name, i, n) == sRGB1(Lut(name, LinspaceEntry(i, n)))

build_cmap_knn_n == 256

\* build_cmap_knn(n): the dict, as its keys in insertion order and the fitted
\* sample points of each key.
cmaps(keys, n) ==
    [keys |-> keys,
     fit |-> [name \in Range(keys) |->
                 [i \in 1..n |-> cspace_convert(CmSample(name, i - 1, n), "sRGB1")]]]

build_cmap_knn(n) ==
    cmaps(SelectSeq(AllNames, LAMBDA name : name \notin Range(drop_maps)), n)

CMAP_KNN == build_cmap_knn(build_cmap_knn_n)

TiePolicies == {"lowest", "highest"}

\* Squared Euclidean distance.
Dist2(p, q) ==
    (p[1] - q[1]) * (p[1] - q[1]) + (p[2] - q[2]) * (p[2] - q[2])
        + (p[3] - q[3]) * (p[3] - q[3])

\* Nearest sample to p among samples[lo..hi]: <<squared distance, 1-based index>>.
\* Between equidistant samples the index returned is the build's choice (tie).
RECURSIVE Nearest(_, _, _, _, _)
Nearest(samples, p, lo, hi, tie) ==
    IF lo = hi THEN <<Dist2(samples[lo], p), lo>>
    ELSE LET mid == (lo + hi) \div 2
             l == Nearest(samples, p, lo, mid, tie)
             r == Nearest(samples, p, mid + 1, hi, tie)
         IN IF r[1] < l[1] \/ (r[1] = l[1] /\ tie = "highest") THEN r ELSE l

\* cm_knn.kneighbors for one query point: <<dist^2, idx>> with idx 0-based
\* (n_neighbors = 1, metric 'euclidean').
ZeroBased(nn) == <<nn[1], nn[2] - 1>>

kneighbors_point(samples, p, tie) == ZeroBased(Nearest(samples, p, 1, Len(samples), tie))

(***************************************************************************)
(* Page Color Extractor (lines 20-47).                                     *)
(***************************************************************************)
\* os.path.basename: what follows the last "/".
basename(path) == SubSeq(path, LastIndexOf(path, "/") + 1, Len(path))

\* os.path.splitext(p)[0] for a p without "/": p up to its last ".", unless
\* only dots precede that ".".
splitext_root(p) ==
    LET dot == LastIndexOf(p, ".")
    IN IF dot > 0 /\ \E i \in 1..(dot - 1) : p[i] # "."
       THEN SubSeq(p, 1, dot - 1)
       ELSE p

\* skimage.color.rgba2rgb on one pixel: alpha-over-white, as floats in [0,1].
rgba2rgb(px) ==
    [c \in 1..3 |-> (255 - px[4]) * 255 + px[4] * px[c]]

\* The values of a uint8 pixel.
uint8_values(px) == [c \in DOMAIN px |-> px[c] * Scale]

\* DataFrame of the given columns and rows.
DataFrame(columns, rows) == [kind |-> "DataFrame", columns |-> columns, rows |-> rows]

\* pd.DataFrame(): no columns, no rows.
EmptyDataFrame == DataFrame(<<>>, <<>>)

\* im.groupby(['R','G','B']).size().reset_index(): one row per distinct
\* colour, ascending, with its number of pixels.
size_rows(colours, pixels) ==
    [k \in DOMAIN colours |->
        [R |-> colours[k][1], G |-> colours[k][2], B |-> colours[k][3],
         count |-> Cardinality({i \in DOMAIN pixels : pixels[i] = colours[k]})]]

groupby_size(pixels) == size_rows(SortedSeqOf([c \in Range(pixels) |-> c]), pixels)

\* Lines 28-29: the pixels as RGB values.
read_rgb(im) ==
    IF im.nchan = 4
    THEN [i \in DOMAIN im.px |-> rgba2rgb(im.px[i])]
    ELSE [i \in DOMAIN im.px |-> uint8_values(im.px[i])]

\* Lines 31-32: the pixels that are neither white (sum 255 * 3) nor black (sum 0).
drop_background(pixels) ==
    SelectSeq(SelectSeq(pixels, LAMBDA px : SumSeq(px) # 255 * 3 * Scale),
              LAMBDA px : SumSeq(px) # 0)

\* Lines 42-45: the page identifier.
page_name(fn, name) ==
    IF name.kind = "None" THEN splitext_root(basename(fn)) ELSE name.s

with_fn(col, page) ==
    [k \in DOMAIN col |->
        [R |-> col[k].R, G |-> col[k].G, B |-> col[k].B,
         count |-> col[k].count, fn |-> page]]

\* Lines 34-47, on the pixels left.
colour_table(pixels, page) ==
    IF Len(pixels) = 0 THEN None
    ELSE DataFrame(<<"R", "G", "B", "count", "fn">>, with_fn(groupby_size(pixels), page))

\* parse_img(fn, name) where skimage.io.imread(fn) yields im.
parse_img(im, fn, name) ==
    IF im.ndim = 2 \/ im.nchan < 3 THEN EmptyDataFrame
    ELSE colour_table(drop_background(read_rgb(im)), page_name(fn, name))

(***************************************************************************)
(* Inputs of the model: pixels, images, paths, page identifiers.           *)
(***************************************************************************)
White == <<255, 255, 255>>

Black == <<0, 0, 0>>

\* Colours an image is enumerated over, pixel by pixel.
Palette == {White, Black, Lut("jet", 0), Lut("jet", 1), Lut("viridis", 0)}

Alphas == {255, 0}

Image(ndim, nchan, px) == [ndim |-> ndim, nchan |-> nchan, px |-> px]

\* A 2x2 image filled with colours sampled from the gradient of a colormap.
Gradient2x2(name) ==
    Image(3, 3, <<Lut(name, 0), Lut(name, 85), Lut(name, 170), Lut(name, 255)>>)

\* A colour next to the first sample of jet, off its gradient.
NearJet == <<1, 255, 3 * TablePos("jet")>>

\* An image with a colour on two pixels and a second colour close to it.
RepeatImage == Image(3, 3, <<Lut("jet", 0), Lut("jet", 0), NearJet>>)

\* Every colour that occurs in some image of the model.
AllColours ==
    Palette \cup {NearJet}
        \cup Range(Gradient2x2("jet").px) \cup Range(Gradient2x2("viridis").px)

RGBImages == {Image(3, 3, px) : px \in SeqsUpTo(Palette, MaxPixels)} \cup {RepeatImage}

RGBAImages ==
    {Image(3, 4, px) :
        px \in SeqsUpTo({c \o <<a>> : c \in Palette, a \in Alphas}, MaxPixels)}

\* Greyscale images: two-dimensional, or with one or two channels.
GreyImages ==
    {Image(2, 0, <<>>), Image(3, 1, <<<<255>>, <<7>>>>), Image(3, 2, <<<<7, 255>>>>)}

Images == RGBImages \cup RGBAImages \cup GreyImages

Paths == {<<"p", "/", "d", "-", "7", ".", "p", "g">>, <<"x", ".", "g">>}

PageIds == {<<"d", "-", "7">>, <<"d", "-", "0", "8">>, <<"7">>, <<"x">>}

(***************************************************************************)
(* Colormap Matcher (lines 96-128).                                        *)
(***************************************************************************)
KeyError == Raise("KeyError")

ValueError == Raise("ValueError")

HasColumns(df, cols) == Range(cols) \subseteq Range(df.columns)

\* convert_to_jab(df): the R, G, B columns, read as sRGB255, replaced by
\* J, a, b. df[from_cols] raises KeyError when a column is missing.
jab_row(r, jab) ==
    [count |-> r.count, fn |-> r.fn, J |-> jab[1], a |-> jab[2], b |-> jab[3]]

convert_to_jab(df) ==
    IF ~HasColumns(df, <<"R", "G", "B">>) THEN KeyError
    ELSE DataFrame(<<"count", "fn", "J", "a", "b">>,
            [k \in DOMAIN df.rows |->
                jab_row(df.rows[k],
                        cspace_convert(<<df.rows[k].R, df.rows[k].G, df.rows[k].B>>,
                                       "sRGB255"))])

\* The perceptual points of the colours of the model's images, for which the
\* answers of the nearest-neighbour indices are tabulated once.
QueryPoints ==
    {cspace_convert(uint8_values(c), "sRGB255") : c \in AllColours}
        \cup {cspace_convert(rgba2rgb(c \o <<a>>), "sRGB255") : c \in AllColours, a \in Alphas}

KnnAnswers ==
    [tie \in TiePolicies |->
        [name \in Range(CMAP_KNN.keys) |->
            [p \in QueryPoints |-> kneighbors_point(CMAP_KNN.fit[name], p, tie)]]]

\* cm_knn.kneighbors(df[['J','a','b']]): for every row, <<dist^2, idx>>.
query(cm_name, p, tie) ==
    IF p \in QueryPoints THEN KnnAnswers[tie][cm_name][p]
    ELSE kneighbors_point(CMAP_KNN.fit[cm_name], p, tie)

kneighbors(cm_name, rows, tie) ==
    [k \in DOMAIN rows |-> query(cm_name, <<rows[k].J, rows[k].a, rows[k].b>>, tie)]

\* Mutant of below_max_diff: the comparison the other way round.
below_max_diff_inverted(dist2, max_diff) == dist2 > max_diff * max_diff

\* dist < max_diff, on the squared distance (max_diff >= 0).
below_max_diff(dist2, max_diff) == dist2 < max_diff * max_diff

pct_cm_divisor == 256

\* Line 124: idx = idx[dist < max_diff], the <<dist^2, idx>> pairs kept.
matched(nn, max_diff) == SelectSeq(nn, LAMBDA x : below_max_diff(x[1], max_diff))

\* Mutant of cm_colors: the matches counted without np.unique.
cm_colors_not_unique(idx) == {<<i, idx[i][2]>> : i \in DOMAIN idx}

\* Line 125: np.unique(idx).
cm_colors(idx) == {idx[i][2] : i \in DOMAIN idx}

\* Mutant of stat_row: pct_cm over the number of page rows.
stat_row_over_rows(cm_name, idx, nrows) ==
    [cm |-> cm_name,
     pct_cm |-> <<Cardinality({idx[i][2] : i \in DOMAIN idx}), nrows>>,
     pct_page |-> <<Len(idx), nrows>>]

\* Line 126: the row of cm_stats.
stat_row(cm_name, idx, nrows) ==
    [cm |-> cm_name,
     pct_cm |-> <<Cardinality(cm_colors(idx)), pct_cm_divisor>>,
     pct_page |-> <<Len(idx), nrows>>]

\* One pass of the loop of lines 122-126.
cm_stat(cm_name, rows, max_diff, tie) ==
    stat_row(cm_name, matched(kneighbors(cm_name, rows, tie), max_diff), Len(rows))

SortTies == {"original", "reversed"}

\* The rows of one pct_cm, in the order the sort leaves them in.
TieOrder(block, sort_tie) == IF sort_tie = "reversed" THEN Reverse(block) ELSE block

RECURSIVE ConcatBlocks(_, _, _)
ConcatBlocks(rows, keys, sort_tie) ==
    IF keys = <<>> THEN <<>>
    ELSE TieOrder(SelectSeq(rows, LAMBDA r : r.pct_cm[1] = Head(keys)[1]), sort_tie)
            \o ConcatBlocks(rows, Tail(keys), sort_tie)

\* Mutant of sort_values: the rows left unsorted.
sort_values_omitted(rows, sort_tie) == rows

\* cm_stats.sort_values('pct_cm', ascending=False): the default kind,
\* quicksort, is not stable, so the order among rows of equal pct_cm is the
\* sort's choice (sort_tie). All pct_cm of one table have one denominator.
sort_values(rows, sort_tie) ==
    ConcatBlocks(rows,
                 SortedSeqOf([k \in {<<r.pct_cm[1]>> : r \in Range(rows)} |-> <<-k[1]>>]),
                 sort_tie)

\* find_cm_dists(df, max_diff). kneighbors raises ValueError on no rows.
cm_stats(keys, rows, max_diff, tie) ==
    [k \in DOMAIN keys |-> cm_stat(keys[k], rows, max_diff, tie)]

find_cm_dists(df, max_diff, tie, sort_tie) ==
    IF Len(df.rows) = 0 THEN ValueError
    ELSE DataFrame(<<"cm", "pct_cm", "pct_page">>,
                   sort_values(cm_stats(CMAP_KNN.keys, df.rows, max_diff, tie), sort_tie))

(***************************************************************************)
(* Rainbow Classifier (lines 131-155).                                     *)
(***************************************************************************)
find_cm_dists_max_diff == 1

cm_thresh_default == <<1, 2>>

\* Mutant of FracGreater: >= for >.
FracGreaterOrEqual(x, y) == x[1] * y[2] >= y[1] * x[2]

\* x > y for fractions with positive denominators.
FracGreater(x, y) == x[1] * y[2] > y[1] * x[2]

\* The distinct values of column fn, ascending (the group keys of groupby('fn')).
group_keys(rows) ==
    SortedSeqOf([id \in {r.fn : r \in Range(rows)} |-> Ords(id)])

\* The rows of df of page fn.
group(rows, fn) ==
    DataFrame(<<"count", "fn", "J", "a", "b">>, SelectSeq(rows, LAMBDA r : r.fn = fn))

\* The cm_stats of page fn under the index (fn, cm).
with_index(fn, stats) ==
    [k \in DOMAIN stats |->
        [fn |-> fn, cm |-> stats[k].cm,
         pct_cm |-> stats[k].pct_cm, pct_page |-> stats[k].pct_page]]

RECURSIVE apply_groups(_, _, _, _)
apply_groups(rows, fns, tie, sort_tie) ==
    IF fns = <<>> THEN <<>>
    ELSE with_index(Head(fns),
                    find_cm_dists(group(rows, Head(fns)), find_cm_dists_max_diff,
                                  tie, sort_tie).rows)
            \o apply_groups(rows, Tail(fns), tie, sort_tie)

\* df_colors.groupby('fn').apply(find_cm_dists): the rows of every page's
\* cm_stats, pages ascending, under the index (fn, cm).
groupby_apply(df, tie, sort_tie) ==
    apply_groups(df.rows, group_keys(df.rows), tie, sort_tie)

\* str.contains('-') on one identifier.
contains_sep(id) == "-" \in Range(id)

NaN == [kind |-> "NaN"]

\* str.rsplit('-', 1).str[1]: what follows the last "-"; NaN for an
\* identifier without "-", whose split has one element only.
rsplit_1(id) ==
    IF contains_sep(id) THEN Str(SubSeq(id, LastIndexOf(id, "-") + 1, Len(id))) ELSE NaN

\* int(s) for a string of the model's alphabet without "-": defined for a
\* non-empty string of digits.
IsIntLiteral(v) ==
    v.kind = "str" /\ Len(v.s) > 0 /\ \A i \in DOMAIN v.s : IsDigit(v.s[i])

RECURSIVE int(_)
int(s) == IF s = <<>> THEN 0 ELSE 10 * int(SubSeq(s, 1, Len(s) - 1)) + (Ord(s[Len(s)]) - 48)

IntValue(n) == [kind |-> "int", v |-> n]

Outcome(r, df, files) == [ret |-> r, df_colors |-> df, csv |-> files]

\* Lines 151-152: the identifiers split when some identifier holds a "-".
split_pages(pgs, split) ==
    [k \in DOMAIN pgs |-> IF split THEN rsplit_1(pgs[k]) ELSE Str(pgs[k])]

\* Line 153: astype(int) raises ValueError on NaN and on a string that is no
\* integer.
astype_int(pgs) ==
    IF \E k \in DOMAIN pgs : ~IsIntLiteral(pgs[k]) THEN ValueError
    ELSE [kind |-> "return", pages |-> [k \in DOMAIN pgs |-> IntValue(int(pgs[k].s))]]

unique_pages(pgs) == astype_int(split_pages(pgs, \E k \in DOMAIN pgs : contains_sep(pgs[k])))

\* Lines 150-155: the pages of the rows of df_rainbow, as page numbers.
pages_with_rainbow(df_rainbow) ==
    unique_pages(Unique([k \in DOMAIN df_rainbow |-> df_rainbow[k].fn]))

\* Lines 147-155.
result(pgs, df_cmap) ==
    IF pgs.kind = "raise" THEN pgs
    ELSE [kind |-> "return", pages |-> pgs.pages, df_cmap |-> df_cmap]

rainbow_pages(df_rainbow) ==
    IF Len(df_rainbow) = 0 THEN [kind |-> "return", pages |-> <<>>]
    ELSE pages_with_rainbow(df_rainbow)

\* Lines 146-155, on the table of line 145.
classify_filtered(df_cmap) ==
    result(rainbow_pages(SelectSeq(df_cmap, LAMBDA r : r.cm \in Range(RAINBOW_MAPS))),
           df_cmap)

\* Lines 145-155, on the table of line 141.
classify(df_cmap, cm_thresh) ==
    classify_filtered(SelectSeq(df_cmap, LAMBDA r : FracGreater(r.pct_cm, cm_thresh)))

\* The debug export of a table (to_csv), when debug is a string.
to_csv(debug, name, table) ==
    IF debug.kind = "str" THEN <<[name |-> debug.s \o name, table |-> table]>> ELSE <<>>

\* Lines 142-155, on the table of line 141.
export_and_classify(df_cmap, jab, cm_thresh, debug, csv1) ==
    Outcome(classify(df_cmap, cm_thresh), jab,
            csv1 \o to_csv(debug, <<"_", "c", "m">>, df_cmap))

\* Lines 141-155, on the converted table. An apply over no group yields a
\* table without pct_cm: KeyError at line 145.
match_and_classify(df_in, jab, cm_thresh, debug, tie, sort_tie, csv1) ==
    IF jab.kind = "raise" THEN Outcome(jab, df_in, csv1)
    ELSE IF Len(jab.rows) = 0 THEN Outcome(KeyError, jab, csv1)
    ELSE export_and_classify(groupby_apply(jab, tie, sort_tie), jab, cm_thresh, debug, csv1)

\* detect_rainbow_from_colors(df_colors, cm_thresh, debug): what it returns
\* or raises, the caller's df_colors afterwards, and the files it wrote.
detect_rainbow_from_colors(df_in, cm_thresh, debug, tie, sort_tie) ==
    match_and_classify(df_in, convert_to_jab(df_in), cm_thresh, debug, tie, sort_tie,
                       to_csv(debug, <<"_", "c", "o", "l", "o", "r", "s">>, df_in.rows))

\* pd.concat(objs, ignore_index=True) on frames, the entries that are not
\* None: no entry, or None entries only, raise ValueError.
concat_frames(frames) ==
    IF Len(frames) = 0 THEN ValueError
    ELSE DataFrame(IF \E k \in DOMAIN frames : Len(frames[k].columns) > 0
                   THEN <<"R", "G", "B", "count", "fn">> ELSE <<>>,
                   chain_from_iterable([k \in DOMAIN frames |-> frames[k].rows]))

pd_concat(objs) == concat_frames(SelectSeq(objs, LAMBDA o : o.kind # "None"))

\* Line 161: has_rainbow of the pair returned.
has_rainbow(r) ==
    IF r.kind = "raise" THEN r ELSE [kind |-> "return", pages |-> r.pages]

\* Lines 160-161.
detect_in(df, tie, sort_tie) ==
    IF df.kind = "raise" THEN df
    ELSE has_rainbow(detect_rainbow_from_colors(df, cm_thresh_default, None,
                                                tie, sort_tie).ret)

\* detect_cmap(img_dir), where glob.glob(img_dir) yields the files fns, each
\* a path and the image read from it.
detect_cmap(fns, tie, sort_tie) ==
    detect_in(pd_concat([k \in DOMAIN fns |-> parse_img(fns[k].im, fns[k].path, None)]),
              tie, sort_tie)

(***************************************************************************)
(* Calls.                                                                  *)
(***************************************************************************)
\* Colour tables of single pages: what parse_img yields for an image.
PageContents ==
    {Image(3, 3, <<Lut("jet", 0), Lut("jet", 1), Lut("jet", 0)>>),
     Image(3, 3, <<Lut("viridis", 0)>>)}

PageTables ==
    {parse_img(im, <<>>, Str(id)) : im \in PageContents, id \in PageIds}

\* Colour tables of up to MaxBatch pages, and the table without columns.
ColourTables ==
    {pd_concat(ts) : ts \in SeqsUpTo(PageTables, MaxBatch) \ {<<>>}} \cup {EmptyDataFrame}

\* The perceptual table of one page, as find_cm_dists receives it.
JabTables ==
    {convert_to_jab(parse_img(im, <<>>, Str(<<"7">>))) :
        im \in {i \in RGBImages \cup RGBAImages : parse_img(i, <<>>, None).kind = "DataFrame"}}
    \cup {DataFrame(<<"count", "fn", "J", "a", "b">>, <<>>)}

Thresholds == {<<0, 1>>, <<1, 128>>, cm_thresh_default}

\* The files a glob can match.
Files ==
    {[path |-> <<"p", "/">> \o id \o <<".", "g">>, im |-> im] :
        id \in {<<"d", "-", "7">>, <<"x">>},
        im \in {Gradient2x2("jet"), Image(3, 3, <<White, Black>>)}}
    \cup {[path |-> <<"d", "-", "0", "8", ".", "g">>, im |-> Gradient2x2("viridis")],
          [path |-> <<"7", ".", "g">>, im |-> Image(2, 0, <<>>)],
          [path |-> <<"8", ".", "g">>, im |-> Image(3, 4, <<White \o <<255>> >>)]}

Init ==
    /\ pc = "idle"
    /\ op = "none"
    /\ args = <<>>
    /\ ret = None
    /\ df_colors = None
    /\ csv = <<>>
    /\ knn_tie \in TiePolicies

Returned(out, r, df, files) == r = out.ret /\ df = out.df_colors /\ files = out.csv

ParseImg ==
    /\ pc = "idle"
    /\ \E im \in Images, fn \in Paths, name \in {None, Str(<<"7">>)} :
        /\ op' = "parse_img"
        /\ args' = [im |-> im, fn |-> fn, name |-> name]
        /\ ret' = parse_img(im, fn, name)
    /\ pc' = "done"
    /\ UNCHANGED <<df_colors, csv, knn_tie>>

FindCmDists ==
    /\ pc = "idle"
    /\ \E df \in JabTables, max_diff \in 0..MaxDiffBound, sort_tie \in SortTies :
        /\ op' = "find_cm_dists"
        /\ args' = [df |-> df, max_diff |-> max_diff]
        /\ ret' = find_cm_dists(df, max_diff, knn_tie, sort_tie)
    /\ pc' = "done"
    /\ UNCHANGED <<df_colors, csv, knn_tie>>

DetectRainbowFromColors ==
    /\ pc = "idle"
    /\ \E df \in ColourTables, cm_thresh \in Thresholds,
          debug \in {None, Str(<<"d">>)}, sort_tie \in SortTies :
        /\ op' = "detect_rainbow_from_colors"
        /\ args' = [df_colors |-> df, cm_thresh |-> cm_thresh, debug |-> debug]
        /\ Returned(detect_rainbow_from_colors(df, cm_thresh, debug, knn_tie, sort_tie),
                    ret', df_colors', csv')
    /\ pc' = "done"
    /\ UNCHANGED knn_tie

DetectCmap ==
    /\ pc = "idle"
    /\ \E fns \in SeqsUpTo(Files, MaxBatch), sort_tie \in SortTies :
        /\ op' = "detect_cmap"
        /\ args' = [fns |-> fns]
        /\ ret' = detect_cmap(fns, knn_tie, sort_tie)
    /\ pc' = "done"
    /\ UNCHANGED <<df_colors, csv, knn_tie>>

\* The caller has taken the result; the next call starts afresh.
Finish ==
    /\ pc = "done"
    /\ pc' = "idle"
    /\ op' = "none"
    /\ args' = <<>>
    /\ ret' = None
    /\ df_colors' = None
    /\ csv' = <<>>
    /\ UNCHANGED knn_tie

Next == ParseImg \/ FindCmDists \/ DetectRainbowFromColors \/ DetectCmap \/ Finish

Spec == Init /\ [][Next]_vars

(***************************************************************************)
(* Vocabulary of the properties.                                           *)
(***************************************************************************)
Called(f) == pc = "done" /\ op = f

FracEq(x, y) == x[1] * y[2] = y[1] * x[2]

FracGE(x, y) == x[1] * y[2] >= y[1] * x[2]

\* A pixel alpha-flattened onto white, on the 0..255 scale (fixed point).
Flattened(px) ==
    IF Len(px) = 4
    THEN [c \in 1..3 |-> 255 * ((255 - px[4]) * 255 + px[4] * px[c])]
    ELSE [c \in 1..3 |-> px[c] * Scale]

IsBackground(px) ==
    \/ \A c \in 1..3 : Flattened(px)[c] = 255 * Scale
    \/ \A c \in 1..3 : Flattened(px)[c] = 0

\* The image has fewer than 3 channels, or no pixel that is not background.
NothingToAnalyse(im) ==
    im.ndim = 2 \/ im.nchan < 3 \/ \A i \in DOMAIN im.px : IsBackground(im.px[i])

\* The page identifier detect_cmap gives a file.
PageOf(file) == splitext_root(basename(file.path))

\* The last component of an identifier split on "-".
Trailing(id) == SubSeq(id, LastIndexOf(id, "-") + 1, Len(id))

\* The match statistics of every (page, colormap) pair of the colour table
\* passed to detect_rainbow_from_colors, as the matcher computes them.
MatchStatistics == groupby_apply(convert_to_jab(args.df_colors), knn_tie, "original")

\* The pages with a rainbow-family colormap of pct_cm above cm_thresh, ascending.
RainbowPages ==
    SortedSeqOf([id \in {r.fn : r \in {s \in Range(MatchStatistics) :
                                 /\ s.cm \in Range(RAINBOW_MAPS)
                                 /\ s.pct_cm[1] * args.cm_thresh[2]
                                        > args.cm_thresh[1] * s.pct_cm[2]}}
                    |-> Ords(id)])

Classified ==
    /\ Called("detect_rainbow_from_colors")
    /\ HasColumns(args.df_colors, <<"R", "G", "B">>)

(***************************************************************************)
(* C1. detect_cmap on a batch of images, also one whose every image has    *)
(* nothing to analyse, returns without an error, and the page of an image  *)
(* with nothing to analyse is not among the flagged pages.                 *)
(* Violated: parse_img yields None or a table without columns for such an  *)
(* image, and pd.concat of None entries only raises ValueError, while a    *)
(* table without columns raises KeyError in convert_to_jab.                *)
(***************************************************************************)
C1_EmptyImagesAreNoError ==
    (Called("detect_cmap") /\ Len(args.fns) >= 1) =>
        /\ ret.kind = "return"
        /\ \A k \in DOMAIN args.fns :
              NothingToAnalyse(args.fns[k].im) =>
                  \A i \in DOMAIN ret.pages :
                      ret.pages[i] # IntValue(int(Trailing(PageOf(args.fns[k]))))

(***************************************************************************)
(* C2. detect_rainbow_from_colors flags exactly the pages for which some   *)
(* rainbow-family colormap has pct_cm strictly above cm_thresh: when it    *)
(* returns, its pages are the page numbers of those pages, in order; it    *)
(* raises only when there is such a page.                                  *)
(***************************************************************************)
C2_FlaggedIffRainbowAboveThresh ==
    Classified =>
        /\ ret.kind = "raise" => Len(RainbowPages) > 0
        /\ ret.kind = "return" =>
              /\ Len(ret.pages) = Len(RainbowPages)
              /\ \A k \in DOMAIN ret.pages :
                    ret.pages[k] = IntValue(int(Trailing(RainbowPages[k])))

\* Two pages under threshold 0: the one matching jet is flagged, the one
\* matching viridis only is not, although viridis is above the threshold.
C2_Witness ==
    /\ Classified
    /\ args.cm_thresh = <<0, 1>>
    /\ ret.kind = "return"
    /\ ret.pages = <<IntValue(7)>>
    /\ \E r \in Range(ret.df_cmap) :
          r.fn = <<"d", "-", "0", "8">> /\ r.cm = "viridis" /\ r.pct_cm[1] > 0

(***************************************************************************)
(* C3 (as stated). With the default thresholds, a 2x2 image of jet colours *)
(* and a 2x2 image of viridis colours: the first page is flagged, the      *)
(* second is not.                                                          *)
(***************************************************************************)
JetAndViridis ==
    /\ Called("detect_cmap")
    /\ Len(args.fns) = 2
    /\ args.fns[1].im = Gradient2x2("jet")
    /\ args.fns[2].im = Gradient2x2("viridis")

C3_JetPageFlagged ==
    JetAndViridis => (ret.kind = "return" /\ Len(ret.pages) = 1)

(***************************************************************************)
(* C3 (amended). With the default thresholds, a 2x2 image of jet colours   *)
(* and a 2x2 image of viridis colours: no page is flagged, since 4 colours *)
(* cover at most 4/256 of a colormap, which is not above 0.5.              *)
(***************************************************************************)
C3_NoPageFlagged ==
    JetAndViridis => (ret.kind = "return" /\ ret.pages = <<>>)

C3_Witness == JetAndViridis /\ ret.kind = "return" /\ ret.pages = <<>>

(***************************************************************************)
(* C4. For an image of 3 or 4 channels whose pixels, alpha-flattened onto  *)
(* white, are all pure white or pure black, parse_img returns None or a    *)
(* table without rows.                                                     *)
(* Violated: rgba2rgb yields floats in [0,1], so a white pixel of a        *)
(* 4-channel image sums to 3, not to 255 * 3, and is kept.                 *)
(***************************************************************************)
C4_BackgroundOnlyYieldsNoRow ==
    (/\ Called("parse_img")
     /\ args.im.ndim = 3
     /\ args.im.nchan \in {3, 4}
     /\ \A i \in DOMAIN args.im.px : IsBackground(args.im.px[i]))
    => (ret.kind = "None" \/ (ret.kind = "DataFrame" /\ Len(ret.rows) = 0))

(***************************************************************************)
(* C5. For a 4-channel image whose alpha is 255 at every pixel, parse_img  *)
(* returns the table it returns for the 3-channel image of the same R, G,  *)
(* B values.                                                               *)
(* Violated: the 4-channel path yields the values on the 0..1 scale and    *)
(* keeps white pixels.                                                     *)
(***************************************************************************)
WithoutAlpha(im) == Image(3, 3, [i \in DOMAIN im.px |-> SubSeq(im.px[i], 1, 3)])

C5_OpaqueAlphaSameTable ==
    (/\ Called("parse_img")
     /\ args.im.ndim = 3
     /\ args.im.nchan = 4
     /\ \A i \in DOMAIN args.im.px : args.im.px[i][4] = 255)
    => ret = parse_img(WithoutAlpha(args.im), args.fn, args.name)

(***************************************************************************)
(* C6. In detect_rainbow_from_colors, when some flagged identifier holds   *)
(* the separator "-", the result is the trailing component of every        *)
(* flagged identifier, as an integer; when none does, the result is the    *)
(* flagged identifiers themselves, unchanged, and no error is raised.      *)
(* Violated: astype(int) is applied in both cases, so the identifier "7"   *)
(* comes back as the integer 7 and the identifier "x" raises ValueError;   *)
(* and an identifier without "-" among identifiers with "-" raises too.    *)
(***************************************************************************)
C6_SplitOrVerbatim ==
    (Classified /\ Len(RainbowPages) > 0) =>
        /\ ret.kind = "return"
        /\ Len(ret.pages) = Len(RainbowPages)
        /\ \A k \in DOMAIN RainbowPages :
              IF \E j \in DOMAIN RainbowPages : contains_sep(RainbowPages[j])
              THEN ret.pages[k] = IntValue(int(Trailing(RainbowPages[k])))
              ELSE ret.pages[k] = Str(RainbowPages[k])

(***************************************************************************)
(* C7. The table detect_rainbow_from_colors returns next to the flagged    *)
(* pages is the unfiltered one: a row for every (page, colormap) pair,     *)
(* also those of pct_cm at or below cm_thresh.                             *)
(* Violated: line 145 rebinds df_cmap to the rows of pct_cm > cm_thresh,   *)
(* and that table is returned.                                             *)
(***************************************************************************)
C7_ReturnsUnfilteredTable ==
    (Classified /\ ret.kind = "return") =>
        Range(ret.df_cmap) = Range(MatchStatistics)

(***************************************************************************)
(* C8. find_cm_dists is monotone in max_diff: for the same page table and  *)
(* colormap, a larger max_diff lowers neither pct_cm nor pct_page.         *)
(***************************************************************************)
\* The row of colormap cm in a cm_stats table.
StatOf(rows, cm) == CHOOSE r \in Range(rows) : r.cm = cm

\* What find_cm_dists yields for the same table under max_diff d.
StatsUnder(d) == find_cm_dists(args.df, d, knn_tie, "original").rows

Matched == Called("find_cm_dists") /\ ret.kind = "DataFrame"

NoLower(later, earlier) ==
    \A r \in Range(earlier) :
        /\ FracGE(StatOf(later, r.cm).pct_cm, r.pct_cm)
        /\ FracGE(StatOf(later, r.cm).pct_page, r.pct_page)

C8_MonotoneInMaxDiff ==
    Matched => \A d \in args.max_diff..(MaxDiffBound + 1) : NoLower(StatsUnder(d), ret.rows)

\* A table for which a larger max_diff raises the pct_cm of some colormap
\* and the pct_page of some colormap.
C8_Witness ==
    /\ Matched
    /\ args.max_diff = 1
    /\ \E r \in Range(ret.rows) :
          ~FracGE(r.pct_cm, StatOf(StatsUnder(MaxDiffBound), r.cm).pct_cm)
    /\ \E r \in Range(ret.rows) :
          ~FracGE(r.pct_page, StatOf(StatsUnder(2), r.cm).pct_page)

(***************************************************************************)
(* C9. For every page table with a row and every colormap, pct_cm is the   *)
(* number of distinct sample indices that are the nearest neighbour of a   *)
(* page row at distance below max_diff, over the sample size N of the      *)
(* colormap, and pct_page is the number of page rows at distance below     *)
(* max_diff of their nearest neighbour, each row counted once whatever its *)
(* count, over the number of rows; both lie in [0, 1].                     *)
(***************************************************************************)
PagePoint(k) == <<args.df.rows[k].J, args.df.rows[k].a, args.df.rows[k].b>>

\* The page rows whose nearest sample of cm is at distance below max_diff.
RowsInReach(cm) ==
    {k \in DOMAIN args.df.rows :
        query(cm, PagePoint(k), knn_tie)[1] < args.max_diff * args.max_diff}

NearestIndices(cm) == {query(cm, PagePoint(k), knn_tie)[2] : k \in RowsInReach(cm)}

InUnitInterval(x) == x[2] > 0 /\ 0 <= x[1] /\ x[1] <= x[2]

C9_CoverageRatios ==
    Matched =>
        \A r \in Range(ret.rows) :
            /\ FracEq(r.pct_cm, <<Cardinality(NearestIndices(r.cm)), Len(CMAP_KNN.fit[r.cm])>>)
            /\ FracEq(r.pct_page, <<Cardinality(RowsInReach(r.cm)), Len(args.df.rows)>>)
            /\ InUnitInterval(r.pct_cm)
            /\ InUnitInterval(r.pct_page)

\* A table with a colour of count 2 and a second colour, both nearest to
\* the same sample of jet and within max_diff of it.
C9_Witness ==
    /\ Matched
    /\ \E k \in DOMAIN args.df.rows : args.df.rows[k].count > 1
    /\ Cardinality(RowsInReach("jet")) = 2
    /\ Cardinality(NearestIndices("jet")) = 1

(***************************************************************************)
(* C10 (as stated). For a page table with a row, find_cm_dists yields one  *)
(* row per colormap of the library, by pct_cm descending, colormaps of     *)
(* equal pct_cm in the order of the configuration table.                   *)
(***************************************************************************)
KeyIndex(cm) == CHOOSE k \in DOMAIN CMAP_KNN.keys : CMAP_KNN.keys[k] = cm

OneRowPerColormap ==
    /\ Len(ret.rows) = Len(CMAP_KNN.keys)
    /\ \A k \in DOMAIN CMAP_KNN.keys :
          Cardinality({i \in DOMAIN ret.rows : ret.rows[i].cm = CMAP_KNN.keys[k]}) = 1

Descending ==
    \A i \in 1..(Len(ret.rows) - 1) : FracGE(ret.rows[i].pct_cm, ret.rows[i + 1].pct_cm)

C10_StableDescending ==
    Matched =>
        /\ OneRowPerColormap
        /\ Descending
        /\ \A i \in 1..(Len(ret.rows) - 1) :
              FracEq(ret.rows[i].pct_cm, ret.rows[i + 1].pct_cm)
                  => KeyIndex(ret.rows[i].cm) < KeyIndex(ret.rows[i + 1].cm)

(***************************************************************************)
(* C10 (amended). For a page table with a row, find_cm_dists yields one    *)
(* row per colormap of the library, by pct_cm descending; the order among  *)
(* colormaps of equal pct_cm is whatever the unstable sort leaves.         *)
(***************************************************************************)
C10_Descending == Matched => (OneRowPerColormap /\ Descending)

\* A table that some colormaps match and others do not: the rows are of
\* two pct_cm at least, the first above the last.
C10_Witness ==
    /\ Matched
    /\ OneRowPerColormap
    /\ ~FracGE(ret.rows[Len(ret.rows)].pct_cm, ret.rows[1].pct_cm)
    /\ FracEq(ret.rows[Len(ret.rows) - 1].pct_cm, ret.rows[Len(ret.rows)].pct_cm)

====
